---- MODULE Spec2Model ----
(***************************************************************************)
(* Verification model of the interaction tutorials:                        *)
(*   - the SynthRecorder tutorial (MyVoice, MyApp with a SynthSequencer),   *)
(*   - 09_audio_spatialization.cpp (the same voice rendered through a       *)
(*     spatializer handed to it as user data),                              *)
(*   - 03_presets.cpp (PresetHandler driven from the keyboard),             *)
(*   - 02_parameters_OSC.cpp (ParameterServer with one listener).           *)
(* Each tutorial is one program; each has its own specification below.     *)
(* Times are counted in audio frames, parameter values in tenths.          *)
(***************************************************************************)
EXTENDS Integers, Sequences, FiniteSets, TLC

VARIABLES
    spatial,      \* TRUE: 09_audio_spatialization.cpp, FALSE: the recorder tutorial
    voice,        \* the PolySynth's MyVoice objects
    crashed,      \* the process died dereferencing a voice's user data
    spatLog,      \* calls received by mSpatializer during the latest onSound
    spatializer,  \* the local `spatializer` of the latest MyVoice::onProcess
    fv,           \* a MyVoice whose p-fields are written and read
    call,         \* the latest setParamFields/getParamFields call on fv:
                  \* its numFields, the p-fields it moved, what it returned
    param,        \* values of the Parameters X, Y and Size, in tenths
    presets,      \* 03_presets: what presetHandler has stored, by index
    morph,        \* 03_presets: the running morph (target, steps left)
    lastKey,      \* 03_presets: the latest key event
    keyCount,     \* 03_presets: key events handled so far
    created,      \* 02_parameters_OSC: onCreate has run
    registered,   \* 02_parameters_OSC: parameters added to paramServer
    guiParams,    \* 02_parameters_OSC: parameters added to the GUI
    listeners,    \* 02_parameters_OSC: addresses added with addListener
    wire          \* 02_parameters_OSC: messages sent to listeners, in flight

synthVars == <<spatial, voice, crashed, spatLog, spatializer>>
fieldVars == <<fv, call>>
presetVars == <<presets, morph, lastKey, keyCount>>
oscVars == <<created, registered, guiParams, listeners, wire>>
vars == <<spatial, voice, crashed, spatLog, spatializer, fv, call, param,
          presets, morph, lastKey, keyCount,
          created, registered, guiParams, listeners, wire>>

----------------------------------------------------------------------------
(* Bounds *)

MaxVoices == 2      \* voices the PolySynth holds
MaxNote == 2        \* distinct keys / note ids
MaxField == 1       \* largest p-field value handed to setParamFields
NumFieldsSpread == 1 \* how far numFields strays from the accepted count
MaxDigit == 1       \* largest number key pressed in the presets example
MaxKeys == 4        \* key events handled in the presets example
MaxWire == 2        \* messages in flight to the OSC listener

(* Durations of the programs, scaled down to a few frames or steps *)

FramesPerBuffer == 2   \* initAudio(44100, 256, 2, 0): frames per block
AttackLen == 1         \* 0.1 s: lengths(0.1f, 0.5f) and AttackTime's default
DecayLen == 3          \* 0.5 s: lengths(0.1f, 0.5f), the second segment
ReleaseLen == 6        \* 1.0 s: ReleaseTime's default
MorphSteps == 2        \* presetHandler.setMorphTime(2.0): steps of a morph

(* Program constants *)

SustainPoint == 1      \* mEnvelope.sustainPoint(1)
NumParamFields == 6    \* the p-field count setParamFields accepts

Voices == 1..MaxVoices
Notes == {69 + 12 * i : i \in 0..(MaxNote - 1)}
FieldVals == 0..MaxField

\* keys pressed in the presets example: number keys, space, 'a'
PresetKeys == {48 + d : d \in 0..MaxDigit} \cup {32, 97}
\* samples of randomGenerator.uniformS() and uniform(), in tenths
UniformS == {-10, 5}
Uniform == {0, 5}
\* values carried by OSC messages and GUI sliders, in tenths
OscValues == {-20, 0, 10, 40}
OscAddresses == {"/Position/X", "/Position/Y", "/Size/Scale", "/Size/X"}

NullData == "null"
SpatData == "mSpatializer"

----------------------------------------------------------------------------
(* gam::AD<> mEnvelope as MyVoice configures and drives it *)

\* levels(0, 1, 0): three break points, two segments
NumSegments == 2

\* segment s runs for lengths[s] frames (the array is indexed from 0)
SegLen(lengths, s) == lengths[s + 1]

EnvDone(e) == e.stage = NumSegments

EnvSustained(e) == e.stage = SustainPoint /\ ~e.released

\* mEnvelope(): one frame
EnvTick(e, lengths) ==
    IF EnvDone(e) \/ EnvSustained(e) THEN e
    ELSE IF e.pos + 1 < SegLen(lengths, e.stage)
         THEN [e EXCEPT !.pos = e.pos + 1]
         ELSE [e EXCEPT !.stage = e.stage + 1, !.pos = 0]

\* the while(io()) loop: n frames
RECURSIVE EnvRun(_, _, _)
EnvRun(e, lengths, n) ==
    IF n = 0 THEN e
    ELSE CHOOSE r \in {EnvRun(t, lengths, n - 1) : t \in {EnvTick(e, lengths)}} :
            TRUE

\* mEnvelope.reset()
EnvReset(e) == [stage |-> 0, pos |-> 0, released |-> FALSE]

\* mEnvelope.release(): leave the sustain point and run the last segment
EnvRelease(e) ==
    IF e.released \/ EnvDone(e) THEN e
    ELSE [stage |-> SustainPoint, pos |-> 0, released |-> TRUE]

----------------------------------------------------------------------------
(* MyVoice *)

\* MyVoice(): lengths(0.1f, 0.5f), levels(0, 1, 0), sustainPoint(1);
\* mX {0}, mY {0}, mSize {1.0} (in tenths).  lengths()[2] is the slot set()
\* writes the release time to; the two segments read lengths()[0] and
\* lengths()[1].
NewVoice ==
    [active |-> FALSE, id |-> 0, userData |-> NullData,
     mX |-> 0, mY |-> 0, mSize |-> 10, freq |-> 0,
     lengths |-> <<AttackLen, DecayLen, 0>>,
     env |-> [stage |-> 0, pos |-> 0, released |-> FALSE]]

\* MyVoice::set
Set(v, x, y, size, frequency, attackTime, releaseTime) ==
    [v EXCEPT !.mX = x, !.mY = y, !.mSize = size, !.freq = frequency,
              !.lengths = [v.lengths EXCEPT ![1] = attackTime,
                                            ![3] = releaseTime]]

\* (setParamFields rejecting only too few fields)
MutSetParamFieldsAtLeast(v, pFields, numFields) ==
    IF numFields < NumParamFields
    THEN [voice |-> v, ret |-> FALSE]
    ELSE [voice |-> Set(v, pFields[1], pFields[2], pFields[3],
                           pFields[4], pFields[5], pFields[6]),
          ret |-> TRUE]

\* MyVoice::setParamFields: the voice afterwards and the value returned
SetParamFields(v, pFields, numFields) ==
    IF numFields # NumParamFields
    THEN [voice |-> v, ret |-> FALSE]
    ELSE [voice |-> Set(v, pFields[1], pFields[2], pFields[3],
                           pFields[4], pFields[5], pFields[6]),
          ret |-> TRUE]

\* (getParamFields reading lengths()[1] for the release time)
MutGetParamFieldsDecay(v) ==
    [pFields |-> <<v.mX, v.mY, v.mSize, v.freq, v.lengths[1], v.lengths[2]>>,
     ret |-> NumParamFields]

\* MyVoice::getParamFields: the fields written and the value returned
GetParamFields(v) ==
    [pFields |-> <<v.mX, v.mY, v.mSize, v.freq, v.lengths[1], v.lengths[3]>>,
     ret |-> NumParamFields]

\* MyVoice::onTriggerOn
OnTriggerOn(v) == [v EXCEPT !.env = EnvReset(v.env)]

\* MyVoice::onTriggerOff
OnTriggerOff(v) == [v EXCEPT !.env = EnvRelease(v.env)]

\* free(): the voice leaves the PolySynth's active list
Free(v) == [v EXCEPT !.active = FALSE]

\* (a voice freed unconditionally at the end of onProcess)
MutFreeAlways(v) == Free(v)

\* the `if (mEnvelope.done()) free();` that ends onProcess
FreeIfDone(v) == IF EnvDone(v.env) THEN Free(v) ELSE v

\* MyVoice::onProcess(AudioIOData &) on the running block st =
\* [voice, log, crashed, spatializer]
OnProcess(st, i) ==
    LET v == st.voice[i]
        ran == [v EXCEPT !.env = EnvRun(v.env, v.lengths, FramesPerBuffer)]
    IN  IF ~spatial
        THEN [st EXCEPT !.voice[i] = FreeIfDone(ran)]
        ELSE IF v.userData # SpatData
             THEN [st EXCEPT !.voice[i] = ran,
                             !.spatializer = v.userData,
                             !.crashed = TRUE]
             ELSE [st EXCEPT !.voice[i] = FreeIfDone(ran),
                             !.spatializer = v.userData,
                             !.log = Append(st.log, "renderBuffer")]

----------------------------------------------------------------------------
(* PolySynth / SynthSequencer as MyApp uses them *)

\* asciiToMIDI and 440 * 2^((midiNote - 69) / 12), on the keys that are
\* whole octaves above A4
NoteFreq(midiNote) == 440 * (2 ^ ((midiNote - 69) \div 12))

\* PolySynth::triggerOn(voice, offset, id, userData)
TriggerOn(v, id, userData) ==
    OnTriggerOn([v EXCEPT !.active = TRUE, !.id = id, !.userData = userData])

\* PolySynth::triggerOff(id)
TriggerOff(vs, id) ==
    [i \in Voices |->
        IF vs[i].active /\ vs[i].id = id THEN OnTriggerOff(vs[i]) ELSE vs[i]]

\* mSequencer.render(io): onProcess of every active voice, in order
RECURSIVE Render(_, _)
Render(st, i) ==
    IF i > MaxVoices \/ st.crashed THEN st
    ELSE IF ~st.voice[i].active THEN Render(st, i + 1)
    ELSE CHOOSE r \in {Render(t, i + 1) : t \in {OnProcess(st, i)}} : TRUE

\* MyApp::onSound, the whole block
OnSoundResult ==
    LET st0 == [voice |-> voice, crashed |-> FALSE, spatializer |-> spatializer,
                log |-> IF spatial THEN <<"prepare">> ELSE <<>>]
        st1 == Render(st0, 1)
    IN  IF spatial /\ ~st1.crashed
        THEN [st1 EXCEPT !.log = Append(st1.log, "finalize")]
        ELSE st1

----------------------------------------------------------------------------
(* Actions of the two synth programs *)

\* AttackTime.get() and ReleaseTime.get(): the sliders are left at the
\* defaults the Parameters are declared with (0.1 and 1.0)
AttackTime == AttackLen
ReleaseTime == ReleaseLen

\* MyApp::onKeyDown
OnKeyDown ==
    /\ ~crashed
    /\ \E i \in Voices, midiNote \in Notes :
        /\ ~voice[i].active
        /\ LET userData == IF spatial THEN SpatData ELSE voice[i].userData
               v == Set(voice[i], param.X, param.Y, param.Size,
                        NoteFreq(midiNote), AttackTime, ReleaseTime)
           IN  voice' = [voice EXCEPT ![i] = TriggerOn(v, midiNote, userData)]
    /\ UNCHANGED <<spatial, crashed, spatLog, spatializer, fieldVars, param,
                   presetVars, oscVars>>

\* MyApp::onKeyUp
OnKeyUp ==
    /\ ~crashed
    /\ \E midiNote \in Notes : voice' = TriggerOff(voice, midiNote)
    /\ UNCHANGED <<spatial, crashed, spatLog, spatializer, fieldVars, param,
                   presetVars, oscVars>>

\* The sequencer starts a note of the registered class "MyVoice" from an
\* event as the recorder writes it for a key press: the voice gets the
\* event's p-fields and is triggered with no user data, so a fresh voice
\* has none and a reused one may keep what it had.
SeqTriggerOn ==
    /\ ~crashed
    /\ \E i \in Voices, id \in Notes :
      \E userData \in {NullData, voice[i].userData} :
        /\ ~voice[i].active
        /\ LET pFields == <<param.X, param.Y, param.Size, NoteFreq(id),
                            AttackTime, ReleaseTime>>
               v == SetParamFields(voice[i], pFields, NumParamFields).voice
           IN  voice' = [voice EXCEPT ![i] = TriggerOn(v, id, userData)]
    /\ UNCHANGED <<spatial, crashed, spatLog, spatializer, fieldVars, param,
                   presetVars, oscVars>>

\* The sequencer ends a note
SeqTriggerOff ==
    /\ ~crashed
    /\ \E id \in Notes : voice' = TriggerOff(voice, id)
    /\ UNCHANGED <<spatial, crashed, spatLog, spatializer, fieldVars, param,
                   presetVars, oscVars>>

\* MyApp::onSound
OnSound ==
    /\ ~crashed
    /\ \E st \in {OnSoundResult} :
           /\ voice' = st.voice
           /\ crashed' = st.crashed
           /\ spatLog' = st.log
           /\ spatializer' = st.spatializer
    /\ UNCHANGED <<spatial, fieldVars, param, presetVars, oscVars>>

----------------------------------------------------------------------------
(* The Parameters the applications declare: X {"X", "Position", 0.0, "",   *)
(* -1, 1}, Y likewise, Size {"Scale", "Size", 1.0, "", 0.1, 3.0}; values    *)
(* are kept in tenths.                                                      *)

Params == {"X", "Y", "Size"}

ParamName == [X |-> "X", Y |-> "Y", Size |-> "Scale"]
ParamGroup == [X |-> "Position", Y |-> "Position", Size |-> "Size"]
ParamDefault == [X |-> 0, Y |-> 0, Size |-> 10]
ParamMin == [X |-> -10, Y |-> -10, Size |-> 1]
ParamMax == [X |-> 10, Y |-> 10, Size |-> 30]

----------------------------------------------------------------------------
(* What each program leaves untouched of the others' state *)

SynthIdle ==
    /\ spatial = FALSE
    /\ voice = [i \in Voices |-> NewVoice]
    /\ crashed = FALSE
    /\ spatLog = <<>>
    /\ spatializer = "none"

FieldsIdle ==
    /\ fv = NewVoice
    /\ call = [op |-> "none", pFields |-> <<>>, numFields |-> 0, ret |-> 0]

PresetIdle ==
    /\ presets = <<>>
    /\ morph = [target |-> ParamDefault, remaining |-> 0]
    /\ lastKey = [key |-> 0, alt |-> FALSE]
    /\ keyCount = 0

OscIdle ==
    /\ created = FALSE
    /\ registered = {}
    /\ guiParams = {}
    /\ listeners = {}
    /\ wire = <<>>

----------------------------------------------------------------------------
(* The two synth programs *)

SynthInit ==
    /\ spatial \in BOOLEAN
    /\ voice = [i \in Voices |-> NewVoice]
    /\ crashed = FALSE
    /\ spatLog = <<>>
    /\ spatializer = "none"
    /\ FieldsIdle /\ param = ParamDefault /\ PresetIdle /\ OscIdle

SynthNext == OnKeyDown \/ OnKeyUp \/ SeqTriggerOn \/ SeqTriggerOff \/ OnSound

SpecSynth == SynthInit /\ [][SynthNext]_vars

\* the audio callback keeps being called
FairSynth == SpecSynth /\ WF_vars(OnSound)

----------------------------------------------------------------------------
(* A voice's p-fields, written and read as the sequencer and the recorder  *)
(* do                                                                       *)

\* a call of setParamFields(pFields, numFields)
CallSetParamFields ==
    /\ \E pFields \in [1..NumParamFields -> FieldVals],
          numFields \in (NumParamFields - NumFieldsSpread)
                            ..(NumParamFields + NumFieldsSpread) :
        LET r == SetParamFields(fv, pFields, numFields)
        IN  /\ fv' = r.voice
            /\ call' = [op |-> "set", numFields |-> numFields, ret |-> r.ret,
                        pFields |-> IF r.ret THEN pFields ELSE <<>>]
    /\ UNCHANGED <<synthVars, param, presetVars, oscVars>>

\* a call of getParamFields(pFields)
CallGetParamFields ==
    /\ LET r == GetParamFields(fv)
       IN  call' = [op |-> "get", numFields |-> r.ret, ret |-> r.ret,
                    pFields |-> r.pFields]
    /\ UNCHANGED <<fv, synthVars, param, presetVars, oscVars>>

FieldsInit ==
    /\ SynthIdle /\ FieldsIdle /\ param = ParamDefault /\ PresetIdle /\ OscIdle

FieldsNext == CallSetParamFields \/ CallGetParamFields

SpecFields == FieldsInit /\ [][FieldsNext]_vars

----------------------------------------------------------------------------
(* 03_presets.cpp: presets stored and recalled from the keyboard *)

\* Keyboard::isNumber and Keyboard::keyAsNumber on the ASCII code of the key
IsNumber(key) == key >= 48 /\ key <= 57
KeyAsNumber(key) == key - 48

\* std::to_string(k.keyAsNumber())
PresetName(key) == ToString(KeyAsNumber(key))

\* (Size left out of the preset handler)
MutPresetParams == {"X", "Y"}

\* presetHandler << X << Y << Size
PresetParams == {"X", "Y", "Size"}

\* presetHandler.storePreset(index, name): the current values of the
\* registered parameters are kept under the index and the name
StorePreset(ps, index, name, values) ==
    [i \in (DOMAIN ps) \cup {index} |->
        IF i = index
        THEN [name |-> name, values |-> [p \in PresetParams |-> values[p]]]
        ELSE ps[i]]

\* presetHandler.recallPreset(index): the stored values become the target of
\* a morph that lasts the morph time; an index never stored recalls nothing
RecallPreset(ps, index, m) ==
    IF index \in DOMAIN ps
    THEN [target |-> ps[index].values, remaining |-> MorphSteps]
    ELSE m

\* one step of the linear interpolation towards the target
MorphStep(values, m) ==
    [p \in Params |->
        IF p \in DOMAIN m.target
        THEN values[p] + ((m.target[p] - values[p]) \div m.remaining)
        ELSE values[p]]

\* MyApp::onKeyDown
PresetOnKeyDown ==
    /\ keyCount < MaxKeys
    /\ \E key \in PresetKeys, alt \in BOOLEAN :
        /\ lastKey' = [key |-> key, alt |-> alt]
        /\ keyCount' = keyCount + 1
        /\ LET presetName == PresetName(key)
           IN  IF alt
               THEN /\ presets' = IF IsNumber(key)
                                  THEN StorePreset(presets, KeyAsNumber(key),
                                                   presetName, param)
                                  ELSE presets
                    /\ UNCHANGED <<morph, param>>
               ELSE IF IsNumber(key)
               THEN /\ morph' = RecallPreset(presets, KeyAsNumber(key), morph)
                    /\ UNCHANGED <<presets, param>>
               ELSE IF key = 32
               THEN /\ \E x \in UniformS, y \in UniformS, u \in Uniform :
                         param' = [X |-> x, Y |-> y, Size |-> 1 + u * 2]
                    /\ UNCHANGED <<presets, morph>>
               ELSE UNCHANGED <<presets, morph, param>>
    /\ UNCHANGED <<synthVars, fieldVars, oscVars>>

\* The preset handler moves the registered parameters one step closer to
\* the recalled preset
MorphTick ==
    /\ morph.remaining > 0
    /\ param' = MorphStep(param, morph)
    /\ morph' = [morph EXCEPT !.remaining = morph.remaining - 1]
    /\ UNCHANGED <<presets, lastKey, keyCount, synthVars, fieldVars, oscVars>>

PresetInit ==
    /\ SynthIdle /\ FieldsIdle /\ param = ParamDefault /\ PresetIdle /\ OscIdle

PresetNext == PresetOnKeyDown \/ MorphTick

SpecPresets == PresetInit /\ [][PresetNext]_vars

\* the preset handler keeps morphing while a morph is under way
FairPresets == SpecPresets /\ WF_vars(MorphTick)

----------------------------------------------------------------------------
(* 02_parameters_OSC.cpp: parameters exposed to and broadcast over OSC *)

\* the OSC address of a parameter: /<group>/<name>
Address(p) == "/" \o ParamGroup[p] \o "/" \o ParamName[p]

\* Parameter::set keeps the value within the declared minimum and maximum
Clamp(p, v) ==
    IF v < ParamMin[p] THEN ParamMin[p]
    ELSE IF v > ParamMax[p] THEN ParamMax[p]
    ELSE v

\* what paramServer sends when parameter p has taken the value v: one
\* message to every listener, if p was added to the server
Broadcast(p, v) ==
    IF p \in registered /\ listeners # {}
    THEN LET to == CHOOSE l \in listeners : TRUE
         IN  <<[to |-> to, address |-> Address(p), value |-> v]>>
    ELSE <<>>

\* a value reaches parameter p
SetParam(p, v) ==
    /\ Len(wire) < MaxWire
    /\ param' = [param EXCEPT ![p] = Clamp(p, v)]
    /\ wire' = wire \o Broadcast(p, Clamp(p, v))

\* gui << X << Y << Size
GuiParams == {"X", "Y", "Size"}

\* (Size left out of the parameter server)
MutServerParams == {"X", "Y"}

\* paramServer << X << Y << Size
ServerParams == {"X", "Y", "Size"}

\* paramServer.addListener("127.0.0.1", 13560)
Listener == <<"127.0.0.1", 13560>>

\* MyApp::onCreate
OscOnCreate ==
    /\ ~created
    /\ created' = TRUE
    /\ guiParams' = GuiParams
    /\ registered' = ServerParams
    /\ listeners' = {Listener}
    /\ UNCHANGED <<wire, param, synthVars, fieldVars, presetVars>>

\* An OSC message arrives at paramServer (127.0.0.1:9010)
OscReceive ==
    /\ \E address \in OscAddresses, v \in OscValues :
        \E p \in registered :
            /\ Address(p) = address
            /\ SetParam(p, v)
    /\ UNCHANGED <<created, registered, guiParams, listeners,
                   synthVars, fieldVars, presetVars>>

\* A slider of the GUI is moved
GuiChange ==
    /\ \E p \in guiParams, v \in OscValues : SetParam(p, v)
    /\ UNCHANGED <<created, registered, guiParams, listeners,
                   synthVars, fieldVars, presetVars>>

\* The listener takes the oldest message off the wire
ListenerReceive ==
    /\ wire # <<>>
    /\ wire' = Tail(wire)
    /\ UNCHANGED <<created, registered, guiParams, listeners, param,
                   synthVars, fieldVars, presetVars>>

OscInit ==
    /\ SynthIdle /\ FieldsIdle /\ param = ParamDefault /\ PresetIdle /\ OscIdle

OscNext == OscOnCreate \/ OscReceive \/ GuiChange \/ ListenerReceive

SpecOsc == OscInit /\ [][OscNext]_vars

----------------------------------------------------------------------------
(* Properties of the synth programs *)

Released(i) == voice[i].active /\ voice[i].env.released

\* C1 (part): between audio blocks no voice is still active with a finished
\* envelope, i.e. the onProcess call that sees the envelope done frees it
\* (an onProcess that ended the process never asked mEnvelope.done())
C1_FreedWhenDone ==
    ~crashed => \A i \in Voices : voice[i].active => ~EnvDone(voice[i].env)

\* C1 (part): a voice leaves the active list only with its envelope done
C1_FreeOnlyWhenDone ==
    [][\A i \in Voices :
        (voice[i].active /\ ~voice'[i].active) => EnvDone(voice'[i].env)]_vars

\* C1 (part): a voice that was triggered on and then off is eventually
\* freed, as long as onProcess keeps being called (it no longer is once
\* the process has died)
C1_EventuallyFreed ==
    \A i \in Voices : Released(i) ~> (~voice[i].active \/ crashed)

\* C1: a MyVoice has a bounded lifecycle. Once triggered on and later
\* triggered off, repeated onProcess calls lead to the envelope being done
\* and the voice freeing itself in that very call; the voice never frees
\* itself while its envelope is not done.
C1_BoundedLifecycle ==
    /\ []C1_FreedWhenDone
    /\ C1_FreeOnlyWhenDone
    /\ C1_EventuallyFreed

\* a voice that went through trigger on, trigger off and free()
C1_Witness ==
    \E i \in Voices :
        /\ ~voice[i].active
        /\ voice[i].env.released
        /\ EnvDone(voice[i].env)
        /\ ~crashed

IsRenderBuffer(c) == c = "renderBuffer"

\* C4: in the spatialization example every onSound call prepares the
\* spatializer exactly once before any renderBuffer and finalizes it exactly
\* once after all of them, whatever the number of voices rendered.
C4_PrepareRenderFinalize ==
    (spatial /\ spatLog # <<>>) =>
        LET n == Len(spatLog)
        IN  /\ n >= 2
            /\ spatLog[1] = "prepare"
            /\ spatLog[n] = "finalize"
            /\ \A k \in 2..(n - 1) : IsRenderBuffer(spatLog[k])

\* C5: in the spatialization example the user data a MyVoice casts in
\* onProcess is always the application's spatializer, however the voice was
\* started (key press or sequencer).
C5_UserDataIsSpatializer ==
    spatial => spatializer \in {"none", SpatData}

----------------------------------------------------------------------------
(* Properties of setParamFields / getParamFields *)

\* C2: setParamFields returns false for every numFields other than 6 and
\* then leaves the voice's six parameters unchanged; for numFields = 6 it
\* returns true and stores the fields in the order x, y, size, frequency,
\* attack time, release time.
C2_SetParamFields ==
    [][call'.op = "set" =>
        IF call'.numFields = 6
        THEN /\ call'.ret = TRUE
             /\ fv'.mX = call'.pFields[1]
             /\ fv'.mY = call'.pFields[2]
             /\ fv'.mSize = call'.pFields[3]
             /\ fv'.freq = call'.pFields[4]
             /\ fv'.lengths[1] = call'.pFields[5]
             /\ fv'.lengths[3] = call'.pFields[6]
             /\ fv'.lengths[2] = fv.lengths[2]
        ELSE /\ call'.ret = FALSE
             /\ fv' = fv]_vars

\* a rejected call on a voice whose fields were set before
C2_Witness ==
    /\ call.op = "set" /\ call.numFields = 7 /\ call.ret = FALSE
    /\ fv.mX = 1 /\ fv.lengths[3] = 1

\* C3: getParamFields after setParamFields(p, 6) returns 6 and hands back
\* p, field by field, in the same order.
C3_RoundTrip ==
    [][(call.op = "set" /\ call.ret = TRUE /\ call'.op = "get") =>
        (call'.ret = 6 /\ \A i \in 1..6 : call'.pFields[i] = call.pFields[i])]_vars

\* fields read back that differ in the attack and release slots
C3_Witness ==
    /\ call.op = "get" /\ call.ret = 6
    /\ call.pFields[5] = 0 /\ call.pFields[6] = 1 /\ call.pFields[1] = 1

----------------------------------------------------------------------------
(* Properties of the presets example *)

\* the latest key event stored / recalled preset n
StoredLast(n) == lastKey.alt /\ IsNumber(lastKey.key) /\ KeyAsNumber(lastKey.key) = n
RecalledLast(n) == ~lastKey.alt /\ IsNumber(lastKey.key) /\ KeyAsNumber(lastKey.key) = n

HoldsPreset(n) ==
    /\ n \in DOMAIN presets
    /\ \A p \in Params :
        p \in DOMAIN presets[n].values /\ param[p] = presets[n].values[p]

\* C6 (part): alt+N keeps the current X, Y and Size under N
C6_StoreKeepsValues ==
    [][\A n \in 0..MaxDigit :
        (keyCount' # keyCount /\ StoredLast(n)') =>
            /\ n \in DOMAIN presets'
            /\ \A p \in Params :
                /\ p \in DOMAIN presets'[n].values
                /\ presets'[n].values[p] = param[p]]_vars

\* C6 (part): pressing N starts a morph over the whole morph time and moves
\* no parameter by itself
C6_RecallStartsMorph ==
    [][\A n \in 0..MaxDigit :
        (keyCount' # keyCount /\ RecalledLast(n)' /\ n \in DOMAIN presets) =>
            /\ param' = param
            /\ morph'.remaining = MorphSteps
            /\ morph'.target = presets[n].values]_vars

\* C6 (part): with no further key event the parameters end up at the
\* values stored under N
C6_EventuallyRestored ==
    \A n \in 0..MaxDigit, k \in 1..MaxKeys :
        (RecalledLast(n) /\ keyCount = k /\ n \in DOMAIN presets)
            ~> (keyCount # k \/ (morph.remaining = 0 /\ HoldsPreset(n)))

\* C6: in the presets example alt+N stores the current X, Y and Size under
\* N; pressing N later starts a morph that, with no further input, ends with
\* X, Y and Size at the stored values, reached over the morph time and not
\* by the key press itself.
C6_StoreThenRecall ==
    /\ C6_StoreKeepsValues
    /\ C6_RecallStartsMorph
    /\ C6_EventuallyRestored

\* preset 1 was stored, the parameters were randomized, 1 was recalled and
\* the morph has brought back the stored values, which are not the defaults
C6_Witness ==
    /\ RecalledLast(1)
    /\ morph.remaining = 0
    /\ HoldsPreset(1)
    /\ param # ParamDefault
    /\ keyCount >= 3

----------------------------------------------------------------------------
(* Properties of the OSC example *)

C7_Address == [X |-> "/Position/X", Y |-> "/Position/Y", Size |-> "/Size/Scale"]

\* C7: in the OSC example every change of X, Y or Scale, whether it comes
\* from an OSC message or from the GUI, puts one message with the
\* parameter's address and new value on the wire to 127.0.0.1:13560.
C7_EveryChangeBroadcast ==
    [][\A p \in Params :
        param'[p] # param[p] =>
            wire' = Append(wire, [to |-> <<"127.0.0.1", 13560>>,
                                  address |-> C7_Address[p],
                                  value |-> param'[p]])]_vars

\* a change of Scale is on the wire
C7_Witness ==
    /\ param.Size # ParamDefault.Size
    /\ wire # <<>>
    /\ wire[Len(wire)].address = "/Size/Scale"
    /\ wire[Len(wire)].value = param.Size

====
